---- MODULE Spec2Model ----
(***************************************************************************)
(* A model of xmlschema/helpers.py: the ParticleCounter occurrence         *)
(* algebra, the qualified-name helpers, the derivation attribute getter    *)
(* and count_digits.                                                       *)
(*                                                                         *)
(* Python strings are sequences of one-character strings.  A Python value  *)
(* that may be a string, None, an integer or a raised exception is a       *)
(* record [tag, s]: tag "str" with the characters in s, tag "None", tag    *)
(* "int" with the characters of its decimal rendering in s, or the name of *)
(* the exception that propagated out of the call.                          *)
(***************************************************************************)
EXTENDS Integers, Sequences, FiniteSets, TLC

VARIABLES
    counter,     \* the accumulator ParticleCounter: [min_occurs, max_occurs]
    fold,        \* the combine calls made on counter since it was created or reset
    qname,       \* the name argument of the first name-helper call
    uri,         \* the uri argument of get_qname
    namespaces,  \* the namespaces argument of the last call that took one
    calls,       \* the name-helper calls made so far, in order
    results,     \* what each of these calls returned, or the exception it raised
    value,       \* elem.get(attribute) of get_xsd_derivation_attribute
    values,      \* the values argument of get_xsd_derivation_attribute
    derivation,  \* its outcome, NotCalled before the call
    number,      \* the argument of count_digits
    digits,      \* its outcome, NotCalled before the call
    heap,        \* the min_occurs and max_occurs of every counter and particle object
    log,         \* the calls made on counter objects: operands, heap before, returned object
    target,      \* the counter object each thread combines into
    thread,      \* each thread's position in the combine it runs, and its locals
    intended,    \* what each thread's combines give when run alone, in order
    begun        \* the combines begun by all threads

vars == <<counter, fold, qname, uri, namespaces, calls, results,
          value, values, derivation, number, digits,
          heap, log, target, thread, intended, begun>>

counterVars == <<counter, fold>>
nameVars == <<qname, uri, namespaces, calls, results>>
attrVars == <<value, values, derivation>>
digitVars == <<number, digits>>
objectVars == <<heap, log>>
threadVars == <<target, thread, intended, begun>>

(***************************************************************************)
(* Python values                                                           *)
(***************************************************************************)
Str(s) == [tag |-> "str", s |-> s]
NoneValue == [tag |-> "None", s |-> <<>>]
Int5 == [tag |-> "int", s |-> <<"5">>]
Raise(exc) == [tag |-> exc, s |-> <<>>]
NotCalled == [tag |-> "NotCalled", s |-> <<>>]
\* a float, given by the characters of str(number)
Float(s) == [tag |-> "float", s |-> s]
\* the couple (a, b)
Couple(a, b) == [tag |-> "tuple", s |-> <<a, b>>]

IsStr(v) == v.tag = "str"
IsValue(v) == v.tag \in {"str", "None", "int"}
Raised(v) == v.tag \notin {"str", "None", "int", "NotCalled"}

\* a namespace map, or None in its place
Dict(items) == [tag |-> "dict", items |-> items]
NoneDict == [tag |-> "None", items |-> <<>>]

\* a sequence of admitted values in its iteration order, or None in its place
List(items) == [tag |-> "list", items |-> items]
NoneList == [tag |-> "None", items |-> <<>>]

\* the values of the variables of the helpers that are not called
NamesIdle ==
    /\ qname = NoneValue /\ uri = NoneValue /\ namespaces = NoneDict
    /\ calls = <<>> /\ results = <<>>

AttrIdle == value = NoneValue /\ values = NoneList /\ derivation = NotCalled
DigitsIdle == number = NoneValue /\ digits = NotCalled
ObjectsIdle == heap = <<>> /\ log = <<>>
ThreadsIdle == target = <<>> /\ thread = <<>> /\ intended = <<>> /\ begun = 0

\* bool(v): None and the empty string are false, 5 and other strings are true
Truthy(v) == (v.tag = "str" /\ v.s # <<>>) \/ v.tag = "int"

(***************************************************************************)
(* ParticleCounter                                                         *)
(***************************************************************************)
\* max_occurs = None (unbounded).  Every use below tests for it before any
\* arithmetic, as the code does.
None == -1

MaxOperand == 2   \* operands have min_occurs and a finite max_occurs in 0..MaxOperand
MaxFold == 3      \* combine calls between two resets

\* the occurrence bounds of a particle: max_occurs is unbounded or not less
\* than min_occurs
Operands ==
    {o \in [min_occurs : 0..MaxOperand, max_occurs : (0..MaxOperand) \cup {None}] :
        o.max_occurs = None \/ o.min_occurs <= o.max_occurs}

ParticleCounter == [min_occurs |-> 0, max_occurs |-> 0]

\* __add__ without the test that self.max_occurs is already unbounded
add_ignoring_unbounded_self(self, other) ==
    [min_occurs |-> self.min_occurs + other.min_occurs,
     max_occurs |-> IF other.max_occurs = None
                    THEN None
                    ELSE self.max_occurs + other.max_occurs]

__add__(self, other) ==
    [min_occurs |-> self.min_occurs + other.min_occurs,
     max_occurs |-> IF self.max_occurs # None
                    THEN IF other.max_occurs = None
                         THEN None
                         ELSE self.max_occurs + other.max_occurs
                    ELSE self.max_occurs]

\* __mul__ without the branch that zeroes an unbounded max
mul_keeping_unbounded_self(self, other) ==
    [min_occurs |-> self.min_occurs * other.min_occurs,
     max_occurs |-> IF self.max_occurs = None
                    THEN self.max_occurs
                    ELSE IF other.max_occurs = None
                         THEN IF self.max_occurs # 0 THEN None ELSE self.max_occurs
                         ELSE self.max_occurs * other.max_occurs]

\* __mul__ without the test that a finite self.max_occurs is 0
mul_unbounded_times_zero(self, other) ==
    [min_occurs |-> self.min_occurs * other.min_occurs,
     max_occurs |-> IF self.max_occurs = None
                    THEN IF other.max_occurs = 0 THEN 0 ELSE self.max_occurs
                    ELSE IF other.max_occurs = None
                         THEN None
                         ELSE self.max_occurs * other.max_occurs]

\* __mul__ without the update of min_occurs
mul_without_min(self, other) ==
    [min_occurs |-> self.min_occurs,
     max_occurs |-> IF self.max_occurs = None
                    THEN IF other.max_occurs = 0 THEN 0 ELSE self.max_occurs
                    ELSE IF other.max_occurs = None
                         THEN IF self.max_occurs # 0 THEN None ELSE self.max_occurs
                         ELSE self.max_occurs * other.max_occurs]

__mul__(self, other) ==
    [min_occurs |-> self.min_occurs * other.min_occurs,
     max_occurs |-> IF self.max_occurs = None
                    THEN IF other.max_occurs = 0 THEN 0 ELSE self.max_occurs
                    ELSE IF other.max_occurs = None
                         THEN IF self.max_occurs # 0 THEN None ELSE self.max_occurs
                         ELSE self.max_occurs * other.max_occurs]

sequence_combine(other) ==
    /\ Len(fold) < MaxFold
    /\ counter' = __add__(counter, other)
    /\ fold' = Append(fold, [op |-> "add", self |-> counter, other |-> other])

nest_combine(other) ==
    /\ Len(fold) < MaxFold
    /\ counter' = __mul__(counter, other)
    /\ fold' = Append(fold, [op |-> "mul", self |-> counter, other |-> other])

reset ==
    /\ counter' = [min_occurs |-> 0, max_occurs |-> 0]
    /\ fold' = <<>>

CounterInit ==
    /\ counter = ParticleCounter
    /\ fold = <<>>

Init == CounterInit /\ NamesIdle /\ AttrIdle /\ DigitsIdle /\ ObjectsIdle /\ ThreadsIdle

SequenceCombine == \E other \in Operands : sequence_combine(other)
NestCombine == \E other \in Operands : nest_combine(other)

Next ==
    \/ SequenceCombine /\ UNCHANGED <<nameVars, attrVars, digitVars, objectVars, threadVars>>
    \/ NestCombine /\ UNCHANGED <<nameVars, attrVars, digitVars, objectVars, threadVars>>
    \/ reset /\ UNCHANGED <<nameVars, attrVars, digitVars, objectVars, threadVars>>

Spec == Init /\ [][Next]_vars

(***************************************************************************)
(* Python string operations                                                *)
(***************************************************************************)
\* the code point order of the characters that occur in names
Ord(c) == CASE c = "/" -> 47 [] c = "5" -> 53 [] c = ":" -> 58 [] c = "a" -> 97
            [] c = "b" -> 98 [] c = "{" -> 123 [] c = "}" -> 125

\* s < t for Python strings
RECURSIVE StrLess(_, _)
StrLess(s, t) ==
    IF t = <<>> THEN FALSE
    ELSE IF s = <<>> THEN TRUE
    ELSE IF Head(s) # Head(t) THEN Ord(Head(s)) < Ord(Head(t))
    ELSE StrLess(Tail(s), Tail(t))

\* c in s
Contains(s, c) == \E i \in 1..Len(s) : s[i] = c

\* s.index(c) counted from 1, 0 when c is not in s
IndexOf(s, c) ==
    IF Contains(s, c)
    THEN CHOOSE i \in 1..Len(s) : s[i] = c /\ \A j \in 1..(i - 1) : s[j] # c
    ELSE 0

RECURSIVE split(_, _)
\* s.split(sep) for a one-character sep
split(s, sep) ==
    LET i == IndexOf(s, sep)
    IN  IF i = 0 THEN <<s>>
        ELSE <<SubSeq(s, 1, i - 1)>> \o split(SubSeq(s, i + 1, Len(s)), sep)

\* s.split(sep, 1)
split1(s, sep) ==
    LET i == IndexOf(s, sep)
    IN  IF i = 0 THEN <<s>>
        ELSE <<SubSeq(s, 1, i - 1), SubSeq(s, i + 1, Len(s))>>

RECURSIVE replace(_, _, _)
\* s.replace(old, new) for a non-empty old: every occurrence, left to right
replace(s, old, new) ==
    IF Len(s) < Len(old) THEN s
    ELSE IF SubSeq(s, 1, Len(old)) = old
         THEN new \o replace(SubSeq(s, Len(old) + 1, Len(s)), old, new)
         ELSE <<Head(s)>> \o replace(Tail(s), old, new)

(***************************************************************************)
(* Namespace maps: a dict is the sequence of its (prefix, uri) items in    *)
(* insertion order, with pairwise different prefixes                       *)
(***************************************************************************)

HasKey(d, k) == \E i \in 1..Len(d.items) : d.items[i][1] = k
Get(d, k) == d.items[CHOOSE i \in 1..Len(d.items) : d.items[i][1] = k][2]

\* (p1, u1) < (p2, u2) for tuples of strings
ItemLess(x, y) == StrLess(x[1], y[1]) \/ (x[1] = y[1] /\ StrLess(x[2], y[2]))

RECURSIVE sorted_ascending(_)
\* sorted(items), without reverse=True
sorted_ascending(items) ==
    IF items = <<>> THEN <<>>
    ELSE LET rest == sorted_ascending(Tail(items))
             x == Head(items)
             k == Cardinality({i \in 1..Len(rest) : ItemLess(rest[i], x)})
         IN  SubSeq(rest, 1, k) \o <<x>> \o SubSeq(rest, k + 1, Len(rest))

RECURSIVE sorted_reverse(_)
\* sorted(items, reverse=True): insertion into the sorted tail, an item going
\* behind the items that are not smaller than it
sorted_reverse(items) ==
    IF items = <<>> THEN <<>>
    ELSE LET rest == sorted_reverse(Tail(items))
             x == Head(items)
             k == Cardinality({i \in 1..Len(rest) : ItemLess(x, rest[i])})
         IN  SubSeq(rest, 1, k) \o <<x>> \o SubSeq(rest, k + 1, Len(rest))

(***************************************************************************)
(* The name helpers                                                        *)
(***************************************************************************)
\* NAMESPACE_PATTERN.match(name).group(1); a name the pattern does not match
\* (AttributeError on None) and a name that is not a string (TypeError) give ''
get_namespace(name) ==
    IF IsStr(name) /\ name.s # <<>> /\ name.s[1] = "{" /\ Contains(name.s, "}")
    THEN Str(SubSeq(name.s, 2, IndexOf(name.s, "}") - 1))
    ELSE Str(<<>>)

ReservedLead == {"{", ".", "/", "["}

get_qname(u, name) ==
    IF ~Truthy(u) \/ ~Truthy(name) THEN name
    ELSE IF ~IsStr(name) THEN Raise("TypeError")
    ELSE IF name.s[1] \in ReservedLead THEN name
    ELSE Str(<<"{">> \o u.s \o <<"}">> \o name.s)

\* local_name with an if in place of the elif: a prefix is stripped after
\* the namespace
local_name_strips_both(q) ==
    IF q.tag = "None" THEN q
    ELSE IF ~IsStr(q) THEN Raise("XMLSchemaTypeError")
    ELSE IF q.s = <<>> THEN Str(<<>>)
    ELSE IF q.s[1] = "{" /\ Len(split(q.s, "}")) # 2
         THEN Raise("XMLSchemaValueError")
    ELSE LET rest == IF q.s[1] = "{" THEN split(q.s, "}")[2] ELSE q.s
         IN  IF Contains(rest, ":")
             THEN IF Len(split(rest, ":")) # 2 THEN Raise("XMLSchemaValueError")
                  ELSE Str(split(rest, ":")[2])
             ELSE Str(rest)

\* local_name splitting at the first separator only, split(sep, 1)
local_name_first_separator(q) ==
    IF q.tag = "None" THEN q
    ELSE IF ~IsStr(q) THEN Raise("XMLSchemaTypeError")
    ELSE IF q.s = <<>> THEN Str(<<>>)
    ELSE IF q.s[1] = "{"
         THEN IF Len(split1(q.s, "}")) # 2 THEN Raise("XMLSchemaValueError")
              ELSE Str(split1(q.s, "}")[2])
    ELSE IF Contains(q.s, ":")
         THEN Str(split1(q.s, ":")[2])
    ELSE q

local_name(q) ==
    IF q.tag = "None" THEN q
    ELSE IF ~IsStr(q) THEN Raise("XMLSchemaTypeError")
    ELSE IF q.s = <<>> THEN Str(<<>>)
    ELSE IF q.s[1] = "{"
         THEN IF Len(split(q.s, "}")) # 2 THEN Raise("XMLSchemaValueError")
              ELSE Str(split(q.s, "}")[2])
    ELSE IF Contains(q.s, ":")
         THEN IF Len(split(q.s, ":")) # 2 THEN Raise("XMLSchemaValueError")
              ELSE Str(split(q.s, ":")[2])
    ELSE q

qname_to_prefixed(q, ns) ==
    IF ~Truthy(q) THEN q
    ELSE IF ns.tag = "None" THEN Raise("AttributeError")
    ELSE LET namespace == get_namespace(q).s
             matching == SelectSeq(ns.items, LAMBDA x : x[2] = namespace)
             ordered == sorted_reverse(matching)
         IN  IF ordered = <<>> THEN q
             ELSE LET prefix == ordered[1][1]
                      u == ordered[1][2]
                  IN  IF u = <<>>
                      THEN IF prefix # <<>> THEN Str(prefix \o <<":">> \o q.s)
                           ELSE q
                      ELSE IF prefix # <<>>
                           THEN Str(replace(q.s, <<"{">> \o u \o <<"}">>,
                                            prefix \o <<":">>))
                           ELSE Str(replace(q.s, <<"{">> \o u \o <<"}">>, <<>>))

\* qname_to_extended without the test for an empty uri of a known prefix
extended_braces_for_empty_uri(q, ns) ==
    IF ~IsStr(q) THEN Raise("TypeError")
    ELSE IF q.s = <<>> THEN q
    ELSE IF q.s[1] = "{" \/ ns.tag = "None" \/ ns.items = <<>> THEN q
    ELSE LET parts == split1(q.s, ":")
         IN  IF Len(parts) # 2
             THEN IF ~HasKey(ns, <<>>) \/ Get(ns, <<>>) = <<>> THEN q
                  ELSE Str(<<"{">> \o Get(ns, <<>>) \o <<"}">> \o q.s)
             ELSE IF ~HasKey(ns, parts[1]) THEN q
                  ELSE Str(<<"{">> \o Get(ns, parts[1]) \o <<"}">> \o parts[2])

qname_to_extended(q, ns) ==
    IF ~IsStr(q) THEN Raise("TypeError")
    ELSE IF q.s = <<>> THEN q
    ELSE IF q.s[1] = "{" \/ ns.tag = "None" \/ ns.items = <<>> THEN q
    ELSE LET parts == split1(q.s, ":")
         IN  IF Len(parts) # 2
             THEN IF ~HasKey(ns, <<>>) \/ Get(ns, <<>>) = <<>> THEN q
                  ELSE Str(<<"{">> \o Get(ns, <<>>) \o <<"}">> \o q.s)
             ELSE IF ~HasKey(ns, parts[1]) THEN q
                  ELSE LET u == Get(ns, parts[1])
                       IN  IF u # <<>>
                           THEN Str(<<"{">> \o u \o <<"}">> \o parts[2])
                           ELSE Str(parts[2])

(***************************************************************************)
(* Calls of the name helpers                                               *)
(***************************************************************************)
MaxNameLen == 3    \* characters of the name given to the first call
MaxBindings == 2   \* items of a namespace map

Chars == {"a", "b", ":", "{", "}"}
Strings(n) == UNION {[1..k -> Chars] : k \in 0..n}

\* strings that start like a path
PathStrings == {<<"/">> \o s : s \in Strings(MaxNameLen - 1)}

Prefixes == {<<>>, <<"a">>, <<"b">>}
Uris == {<<>>, <<"a">>, <<"b">>}

\* expanded names '{uri}local'
LocalNames == UNION {[1..k -> {"a", "b"}] : k \in 1..2}
ExpandedNames == {<<"{">> \o u \o <<"}">> \o l : u \in Uris, l \in LocalNames}

\* a name is a string, None, or a value that is not a string
NameInputs ==
    {Str(s) : s \in Strings(MaxNameLen) \cup PathStrings \cup ExpandedNames}
        \cup {NoneValue, Int5}

Dicts ==
    {Dict(items) : items \in
        {its \in UNION {[1..k -> Prefixes \X Uris] : k \in 0..MaxBindings} :
            \A i, j \in 1..Len(its) : its[i][1] = its[j][1] => i = j}}
NamespaceArgs == Dicts \cup {NoneDict}

UriArgs == {NoneValue, Str(<<>>), Str(<<"a">>), Str(<<"}">>)}

\* the calls that are made on the result of an earlier call
Pipelines == {<<"get_qname", "get_namespace">>, <<"get_qname", "local_name">>,
              <<"qname_to_extended", "qname_to_prefixed">>}

CanCall(fn) ==
    \/ calls = <<>>
    \/ Len(calls) = 1 /\ IsValue(results[1]) /\ <<calls[1], fn>> \in Pipelines

\* the name the next call is made on
Arg == IF calls = <<>> THEN qname ELSE results[Len(results)]

CallGetNamespace ==
    /\ CanCall("get_namespace")
    /\ results' = Append(results, get_namespace(Arg))
    /\ calls' = Append(calls, "get_namespace")
    /\ UNCHANGED <<qname, uri, namespaces>>

CallGetQname ==
    /\ CanCall("get_qname")
    /\ \E u \in UriArgs :
          /\ uri' = u
          /\ results' = Append(results, get_qname(u, Arg))
    /\ calls' = Append(calls, "get_qname")
    /\ UNCHANGED <<qname, namespaces>>

CallLocalName ==
    /\ CanCall("local_name")
    /\ results' = Append(results, local_name(Arg))
    /\ calls' = Append(calls, "local_name")
    /\ UNCHANGED <<qname, uri, namespaces>>

CallQnameToPrefixed ==
    /\ CanCall("qname_to_prefixed")
    /\ \E ns \in NamespaceArgs :
          /\ calls = <<"qname_to_extended">> => ns = namespaces
          /\ namespaces' = ns
          /\ results' = Append(results, qname_to_prefixed(Arg, ns))
    /\ calls' = Append(calls, "qname_to_prefixed")
    /\ UNCHANGED <<qname, uri>>

CallQnameToExtended ==
    /\ CanCall("qname_to_extended")
    /\ \E ns \in NamespaceArgs :
          /\ namespaces' = ns
          /\ results' = Append(results, qname_to_extended(Arg, ns))
    /\ calls' = Append(calls, "qname_to_extended")
    /\ UNCHANGED <<qname, uri>>

InitNames ==
    /\ CounterInit /\ AttrIdle /\ DigitsIdle /\ ObjectsIdle /\ ThreadsIdle
    /\ qname \in NameInputs
    /\ uri = NoneValue /\ namespaces = NoneDict
    /\ calls = <<>> /\ results = <<>>

NextNames ==
    \/ CallGetNamespace /\ UNCHANGED <<counterVars, attrVars, digitVars, objectVars, threadVars>>
    \/ CallGetQname /\ UNCHANGED <<counterVars, attrVars, digitVars, objectVars, threadVars>>
    \/ CallLocalName /\ UNCHANGED <<counterVars, attrVars, digitVars, objectVars, threadVars>>
    \/ CallQnameToPrefixed /\ UNCHANGED <<counterVars, attrVars, digitVars, objectVars, threadVars>>
    \/ CallQnameToExtended /\ UNCHANGED <<counterVars, attrVars, digitVars, objectVars, threadVars>>

SpecNames == InitNames /\ [][NextNames]_vars

(***************************************************************************)
(* get_xsd_derivation_attribute                                            *)
(***************************************************************************)
Range(f) == {f[i] : i \in DOMAIN f}

XSD_FINAL_ATTRIBUTE_VALUES ==
    {<<"r", "e", "s", "t", "r", "i", "c", "t", "i", "o", "n">>,
     <<"e", "x", "t", "e", "n", "s", "i", "o", "n">>,
     <<"l", "i", "s", "t">>,
     <<"u", "n", "i", "o", "n">>}

\* the orders in which a set can be iterated
Orders(S) ==
    {f \in [1..Cardinality(S) -> S] :
        \A i, j \in 1..Cardinality(S) : f[i] = f[j] => i = j}

RECURSIVE split_whitespace(_)
\* s.split(): the runs of characters between whitespace
split_whitespace(s) ==
    IF s = <<>> THEN <<>>
    ELSE IF Head(s) = " " THEN split_whitespace(Tail(s))
    ELSE LET i == IndexOf(s, " ")
         IN  IF i = 0 THEN <<s>>
             ELSE <<SubSeq(s, 1, i - 1)>>
                      \o split_whitespace(SubSeq(s, i + 1, Len(s)))

RECURSIVE join(_, _)
\* sep.join(items)
join(sep, items) ==
    IF items = <<>> THEN <<>>
    ELSE IF Len(items) = 1 THEN items[1]
    ELSE items[1] \o sep \o join(sep, Tail(items))

HashAll == <<"#", "a", "l", "l">>

\* get_xsd_derivation_attribute with any() in place of all()
derivation_any_item_admitted(v, vals) ==
    IF v.tag = "None" THEN Str(<<>>)
    ELSE LET items == split_whitespace(v.s)
         IN  IF Len(items) = 1 /\ items[1] = HashAll
             THEN Str(join(<<" ">>, vals))
             ELSE IF items # <<>>
                     /\ ~\E i \in 1..Len(items) : items[i] \in Range(vals)
                  THEN Raise("XMLSchemaValueError")
                  ELSE v

\* v is elem.get(attribute), vals the admitted values as iterated
get_xsd_derivation_attribute(v, vals) ==
    IF v.tag = "None" THEN Str(<<>>)
    ELSE LET items == split_whitespace(v.s)
         IN  IF Len(items) = 1 /\ items[1] = HashAll
             THEN Str(join(<<" ">>, vals))
             ELSE IF ~\A i \in 1..Len(items) : items[i] \in Range(vals)
                  THEN Raise("XMLSchemaValueError")
                  ELSE v

MaxValueLen == 5   \* characters of the attribute value
MaxValues == 2     \* items of the values argument

AttrChars == {"#", "a", "l", " "}
Tokens == {<<"a">>, <<"l">>, HashAll}

ValueInputs ==
    {Str(s) : s \in UNION {[1..k -> AttrChars] : k \in 0..MaxValueLen}}
        \cup {NoneValue}
ValuesArgs ==
    {List(its) : its \in UNION {[1..k -> Tokens] : k \in 0..MaxValues}}
        \cup {NoneList}

CallDerivation ==
    /\ derivation = NotCalled
    /\ \E vals \in IF values.tag = "None"
                   THEN Orders(XSD_FINAL_ATTRIBUTE_VALUES)
                   ELSE {values.items} :
          derivation' = get_xsd_derivation_attribute(value, vals)
    /\ UNCHANGED <<value, values>>

InitAttr ==
    /\ CounterInit /\ NamesIdle /\ DigitsIdle /\ ObjectsIdle /\ ThreadsIdle
    /\ value \in ValueInputs
    /\ values \in ValuesArgs
    /\ derivation = NotCalled

NextAttr == CallDerivation /\ UNCHANGED <<counterVars, nameVars, digitVars, objectVars, threadVars>>

SpecAttr == InitAttr /\ [][NextAttr]_vars

(***************************************************************************)
(* count_digits                                                            *)
(***************************************************************************)
DigitChars == <<"0", "1", "2", "3", "4", "5", "6", "7", "8", "9">>
IsDigit(c) == \E d \in 1..10 : DigitChars[d] = c
DigitValue(c) == (CHOOSE d \in 1..10 : DigitChars[d] = c) - 1

RECURSIVE lstrip(_, _)
\* s.lstrip(chars)
lstrip(s, chars) ==
    IF s # <<>> /\ Head(s) \in chars THEN lstrip(Tail(s), chars) ELSE s

RECURSIVE rstrip(_, _)
\* s.rstrip(chars)
rstrip(s, chars) ==
    IF s # <<>> /\ s[Len(s)] \in chars
    THEN rstrip(SubSeq(s, 1, Len(s) - 1), chars)
    ELSE s

\* s.strip(chars)
strip(s, chars) == rstrip(lstrip(s, chars), chars)

\* s.partition(sep) without the separator: the parts before and after the
\* first sep
partition(s, sep) ==
    LET i == IndexOf(s, sep)
    IN  IF i = 0 THEN <<s, <<>>>>
        ELSE <<SubSeq(s, 1, i - 1), SubSeq(s, i + 1, Len(s))>>

RECURSIVE NatOf(_)
\* int(s) for a string of digits, 0 for ''
NatOf(s) ==
    IF s = <<>> THEN 0
    ELSE 10 * NatOf(SubSeq(s, 1, Len(s) - 1)) + DigitValue(s[Len(s)])

\* int(s) for an optionally signed string of digits
int(s) ==
    IF s # <<>> /\ Head(s) = "-" THEN 0 - NatOf(Tail(s))
    ELSE IF s # <<>> /\ Head(s) = "+" THEN NatOf(Tail(s))
    ELSE NatOf(s)

RECURSIVE StrOfNat(_)
\* str(n) for n >= 0
StrOfNat(n) ==
    IF n < 10 THEN <<DigitChars[n + 1]>>
    ELSE StrOfNat(n \div 10) \o <<DigitChars[(n % 10) + 1]>>

\* '%+d' % n
SignedStr(n) == IF n < 0 THEN <<"-">> \o StrOfNat(0 - n) ELSE <<"+">> \o StrOfNat(n)

Zeros(n) == [i \in 1..n |-> "0"]

\* Decimal(s) for a numeric string s: the sign, the coefficient digits
\* without leading zeros and the exponent
Decimal(s) ==
    LET negative == s # <<>> /\ Head(s) = "-"
        unsigned == IF s # <<>> /\ Head(s) \in {"-", "+"} THEN Tail(s) ELSE s
        marker == IF Contains(unsigned, "E") THEN "E" ELSE "e"
        mantissa == partition(unsigned, marker)[1]
        exppart == partition(unsigned, marker)[2]
        intpart == partition(mantissa, ".")[1]
        fracpart == partition(mantissa, ".")[2]
        coefficient == lstrip(intpart \o fracpart, {"0"})
    IN  [sign |-> IF negative THEN <<"-">> ELSE <<>>,
         int |-> IF coefficient = <<>> THEN <<"0">> ELSE coefficient,
         exp |-> int(exppart) - Len(fracpart)]

\* str(d) of a finite Decimal: scientific notation when the exponent is
\* positive or more than six places lie before the first digit
DecimalStr(d) ==
    LET leftdigits == d.exp + Len(d.int)
        dotplace == IF d.exp <= 0 /\ leftdigits > -6 THEN leftdigits ELSE 1
        intpart == IF dotplace <= 0 THEN <<"0">>
                   ELSE IF dotplace >= Len(d.int)
                        THEN d.int \o Zeros(dotplace - Len(d.int))
                        ELSE SubSeq(d.int, 1, dotplace)
        fracpart == IF dotplace <= 0 THEN <<".">> \o Zeros(0 - dotplace) \o d.int
                    ELSE IF dotplace >= Len(d.int) THEN <<>>
                         ELSE <<".">> \o SubSeq(d.int, dotplace + 1, Len(d.int))
        exp == IF leftdigits = dotplace THEN <<>>
               ELSE <<"E">> \o SignedStr(leftdigits - dotplace)
    IN  d.sign \o intpart \o fracpart \o exp

\* the digits of a significand and an exponent, the tail of count_digits
ExponentDigits(significand, exponent) ==
    LET stripped == strip(significand, {"0"})
        num_digits == IF Contains(stripped, ".") THEN Len(stripped) - 1
                      ELSE Len(stripped)
    IN  IF int(exponent) > 0 THEN Couple(num_digits + int(exponent), 0)
        ELSE Couple(0, num_digits - int(exponent) - 1)

count_digits(n) ==
    LET text == IF n.tag = "str"
                THEN lstrip(DecimalStr(Decimal(n.s)), {"-", "+"})
                ELSE lstrip(n.s, {"-", "+"})
    IN  IF Contains(text, "E")
        THEN ExponentDigits(partition(text, "E")[1], partition(text, "E")[2])
        ELSE IF Contains(text, "e")
        THEN ExponentDigits(partition(text, "e")[1], partition(text, "e")[2])
        ELSE IF ~Contains(text, ".")
        THEN Couple(Len(lstrip(text, {"0"})), 0)
        ELSE Couple(Len(lstrip(partition(text, ".")[1], {"0"})),
                    Len(rstrip(partition(text, ".")[2], {"0"})))

MaxIntDigits == 2    \* digits before the decimal point of a generated number
MaxFracDigits == 2   \* digits after it

NumberDigits == {"0", "1", "5"}
ExponentValues == {<<"0">>, <<"2">>, <<"7">>}
Signs == {<<>>, <<"-">>, <<"+">>}

DigitStrings(n) == UNION {[1..k -> NumberDigits] : k \in 0..n}

\* digits with an optional decimal point, at least one digit
Mantissas ==
    {i \o f : i \in DigitStrings(MaxIntDigits),
              f \in {<<>>} \cup {<<".">> \o d : d \in DigitStrings(MaxFracDigits)}}
        \ {<<>>, <<".">>}

Exponents ==
    {<<>>} \cup {<<m>> \o sg \o e : m \in {"E", "e"}, sg \in Signs,
                                   e \in ExponentValues}

Numerals == {sg \o m \o e : sg \in Signs, m \in Mantissas, e \in Exponents}

\* the numbers of the documented examples
DocumentedNumbers ==
    {<<"0", "0", "1", "2", ".", "3", "4", "0", "0">>,
     <<"1", ".", "5", "E", "3">>,
     <<"1", ".", "5", "E", "-", "3">>,
     <<"1", "0", "0">>}

\* str(number) of some floats
FloatReprs ==
    {<<"1", "5", "0", "0", ".", "0">>, <<"1", "e", "-", "0", "7">>,
     <<"1", ".", "5", "e", "+", "1", "6">>, <<"0", ".", "5">>}

NumberInputs ==
    {Str(s) : s \in Numerals \cup DocumentedNumbers}
        \cup {Float(s) : s \in FloatReprs}

CallCountDigits ==
    /\ digits = NotCalled
    /\ digits' = count_digits(number)
    /\ UNCHANGED number

InitDigits ==
    /\ CounterInit /\ NamesIdle /\ AttrIdle /\ ObjectsIdle /\ ThreadsIdle
    /\ number \in NumberInputs
    /\ digits = NotCalled

NextDigits == CallCountDigits /\ UNCHANGED <<counterVars, nameVars, attrVars, objectVars, threadVars>>

SpecDigits == InitDigits /\ [][NextDigits]_vars

(***************************************************************************)
(* ParticleCounter objects: several counters and a particle, each object   *)
(* with its own min_occurs and max_occurs                                  *)
(***************************************************************************)
MaxCalls == 3   \* calls made on the counter objects

Counters == {"c1", "c2"}
Particles == {"p"}
Objects == Counters \cup Particles

\* a.__add__(b): the attributes of a are assigned, a is returned
object_add(a, b) ==
    /\ heap' = [heap EXCEPT ![a] = __add__(heap[a], heap[b])]
    /\ log' = Append(log, [op |-> "add", self |-> a, other |-> b,
                           before |-> heap, ret |-> a])

\* a.__mul__(b)
object_mul(a, b) ==
    /\ heap' = [heap EXCEPT ![a] = __mul__(heap[a], heap[b])]
    /\ log' = Append(log, [op |-> "mul", self |-> a, other |-> b,
                           before |-> heap, ret |-> a])

\* reset that zeroes every counter, as attributes kept on the class would
reset_every_counter(a) ==
    /\ heap' = [o \in Objects |->
                  IF o \in Counters THEN [min_occurs |-> 0, max_occurs |-> 0]
                  ELSE heap[o]]
    /\ log' = Append(log, [op |-> "reset", self |-> a, other |-> a,
                           before |-> heap, ret |-> "None"])

\* a.reset(): returns None
object_reset(a) ==
    /\ heap' = [heap EXCEPT ![a] = [min_occurs |-> 0, max_occurs |-> 0]]
    /\ log' = Append(log, [op |-> "reset", self |-> a, other |-> a,
                           before |-> heap, ret |-> "None"])

ObjectAdd == \E a \in Counters, b \in Objects : Len(log) < MaxCalls /\ object_add(a, b)
ObjectMul == \E a \in Counters, b \in Objects : Len(log) < MaxCalls /\ object_mul(a, b)
ObjectReset == \E a \in Counters : Len(log) < MaxCalls /\ object_reset(a)

\* the counters are fresh, the particle has the bounds it was built with
InitObjects ==
    /\ CounterInit /\ NamesIdle /\ AttrIdle /\ DigitsIdle /\ ThreadsIdle
    /\ heap \in {h \in [Objects -> Operands \cup {ParticleCounter}] :
                    \A c \in Counters : h[c] = ParticleCounter}
    /\ log = <<>>

NextObjects ==
    \/ ObjectAdd /\ UNCHANGED <<counterVars, nameVars, attrVars, digitVars, threadVars>>
    \/ ObjectMul /\ UNCHANGED <<counterVars, nameVars, attrVars, digitVars, threadVars>>
    \/ ObjectReset /\ UNCHANGED <<counterVars, nameVars, attrVars, digitVars, threadVars>>

SpecObjects == InitObjects /\ [][NextObjects]_vars

(***************************************************************************)
(* Threads combining into ParticleCounter instances: every read and every  *)
(* write of an attribute is a step of its own, and the steps of the        *)
(* threads interleave.  The operand of a combine is only read.             *)
(***************************************************************************)
MaxCombines == 2   \* combines begun by all threads together

Threads == {1, 2}
OtherThread(t) == CHOOSE u \in Threads : u # t

\* bounds a counter can have when a thread takes it up
StartBounds == {ParticleCounter,
                [min_occurs |-> 1, max_occurs |-> 2],
                [min_occurs |-> 1, max_occurs |-> None]}
\* bounds of the particles the threads combine in
ThreadOperands == {[min_occurs |-> 1, max_occurs |-> 2],
                   [min_occurs |-> 2, max_occurs |-> None],
                   [min_occurs |-> 0, max_occurs |-> 0]}

NotRunning == [pc |-> "idle", op |-> "none", other |-> ParticleCounter,
               reg |-> 0, mixed |-> FALSE]
InFlight(u) == thread[u].pc \notin {"idle", "raised"}

\* thread t moves to pc with reg as its operand stack; mixed records that
\* the step was taken while the other thread was inside a combine
Goto(t, pc, reg) ==
    thread' = [thread EXCEPT ![t].pc = pc, ![t].reg = reg,
                             ![t].mixed = @ \/ InFlight(OtherThread(t))]
\* return self
Return(t) ==
    thread' = [thread EXCEPT ![t] = [NotRunning EXCEPT
                  !.mixed = thread[t].mixed \/ InFlight(OtherThread(t))]]

Arith(op, x, y) == IF op = "add" THEN x + y ELSE x * y

\* the call self + other or self * other is entered
begin(t, op, other) ==
    /\ thread[t].pc = "idle"
    /\ begun < MaxCombines
    /\ begun' = begun + 1
    /\ thread' = [thread EXCEPT ![t] = [pc |-> "read_min", op |-> op, other |-> other,
                     reg |-> 0, mixed |-> @.mixed \/ InFlight(OtherThread(t))]]
    /\ intended' = [intended EXCEPT ![t] =
                      IF op = "add" THEN __add__(@, other) ELSE __mul__(@, other)]
    /\ UNCHANGED <<heap, target>>

\* self.min_occurs op= other.min_occurs: the operands are read
read_min(t) ==
    /\ thread[t].pc = "read_min"
    /\ Goto(t, "write_min", Arith(thread[t].op, heap[target[t]].min_occurs,
                                  thread[t].other.min_occurs))
    /\ UNCHANGED <<heap, target, intended, begun>>

\* the store of min_occurs into one instance whatever self is
write_min_shared(t) ==
    /\ thread[t].pc = "write_min"
    /\ heap' = [heap EXCEPT !["c1"].min_occurs = thread[t].reg]
    /\ Goto(t, "test_max", 0)
    /\ UNCHANGED <<target, intended, begun>>

\* self.min_occurs op= other.min_occurs: the result is stored
write_min(t) ==
    /\ thread[t].pc = "write_min"
    /\ heap' = [heap EXCEPT ![target[t]].min_occurs = thread[t].reg]
    /\ Goto(t, "test_max", 0)
    /\ UNCHANGED <<target, intended, begun>>

\* the first test on self.max_occurs, and the test on other.max_occurs
test_max(t) ==
    LET m == heap[target[t]].max_occurs
        o == thread[t].other.max_occurs
    IN  /\ thread[t].pc = "test_max"
        /\ IF thread[t].op = "add"
           THEN IF m # None
                THEN IF o = None THEN Goto(t, "set_none", 0)
                     ELSE Goto(t, "read_max", 0)
                ELSE Return(t)
           ELSE IF m = None
                THEN IF o = 0 THEN Goto(t, "set_zero", 0) ELSE Return(t)
                ELSE IF o = None THEN Goto(t, "test_nonzero", 0)
                     ELSE Goto(t, "read_max", 0)
        /\ UNCHANGED <<heap, target, intended, begun>>

\* __mul__: if self.max_occurs != 0
test_nonzero(t) ==
    /\ thread[t].pc = "test_nonzero"
    /\ IF heap[target[t]].max_occurs # 0 THEN Goto(t, "set_none", 0) ELSE Return(t)
    /\ UNCHANGED <<heap, target, intended, begun>>

\* self.max_occurs = None, or self.max_occurs = 0 in __mul__
set_max(t) ==
    /\ thread[t].pc \in {"set_none", "set_zero"}
    /\ heap' = [heap EXCEPT ![target[t]].max_occurs =
                  IF thread[t].pc = "set_none" THEN None ELSE 0]
    /\ Return(t)
    /\ UNCHANGED <<target, intended, begun>>

\* self.max_occurs op= other.max_occurs: the operands are read; None as the
\* left operand raises TypeError
read_max(t) ==
    LET m == heap[target[t]].max_occurs
    IN  /\ thread[t].pc = "read_max"
        /\ IF m = None THEN Goto(t, "raised", 0)
           ELSE Goto(t, "write_max", Arith(thread[t].op, m, thread[t].other.max_occurs))
        /\ UNCHANGED <<heap, target, intended, begun>>

\* self.max_occurs op= other.max_occurs: the result is stored
write_max(t) ==
    /\ thread[t].pc = "write_max"
    /\ heap' = [heap EXCEPT ![target[t]].max_occurs = thread[t].reg]
    /\ Return(t)
    /\ UNCHANGED <<target, intended, begun>>

Begin == \E t \in Threads, op \in {"add", "mul"}, other \in ThreadOperands : begin(t, op, other)
ReadMin == \E t \in Threads : read_min(t)
WriteMin == \E t \in Threads : write_min(t)
TestMax == \E t \in Threads : test_max(t)
TestNonZero == \E t \in Threads : test_nonzero(t)
SetMax == \E t \in Threads : set_max(t)
ReadMax == \E t \in Threads : read_max(t)
WriteMax == \E t \in Threads : write_max(t)

\* each thread holds its own instance, or both hold the instance c1
InitThreads ==
    /\ CounterInit /\ NamesIdle /\ AttrIdle /\ DigitsIdle
    /\ log = <<>>
    /\ target \in {<<"c1", "c2">>, <<"c1", "c1">>}
    /\ heap \in [Counters -> StartBounds]
    /\ target[2] = "c1" => heap["c2"] = ParticleCounter
    /\ thread = [t \in Threads |-> NotRunning]
    /\ intended = [t \in Threads |-> heap[target[t]]]
    /\ begun = 0

NextThreads ==
    \/ Begin /\ UNCHANGED <<counterVars, nameVars, attrVars, digitVars, log>>
    \/ ReadMin /\ UNCHANGED <<counterVars, nameVars, attrVars, digitVars, log>>
    \/ WriteMin /\ UNCHANGED <<counterVars, nameVars, attrVars, digitVars, log>>
    \/ TestMax /\ UNCHANGED <<counterVars, nameVars, attrVars, digitVars, log>>
    \/ TestNonZero /\ UNCHANGED <<counterVars, nameVars, attrVars, digitVars, log>>
    \/ SetMax /\ UNCHANGED <<counterVars, nameVars, attrVars, digitVars, log>>
    \/ ReadMax /\ UNCHANGED <<counterVars, nameVars, attrVars, digitVars, log>>
    \/ WriteMax /\ UNCHANGED <<counterVars, nameVars, attrVars, digitVars, log>>

SpecThreads == InitThreads /\ [][NextThreads]_vars

(***************************************************************************)
(* Properties of the ParticleCounter                                       *)
(***************************************************************************)
\* the counter as it was left by the i-th call of fold
ResultOf(i) == IF i = Len(fold) THEN counter ELSE fold[i + 1].self

Zero == [min_occurs |-> 0, max_occurs |-> 0]

\* C1: a nest_combine whose accumulator or whose operand is (0,0) leaves the
\* accumulator at (0,0), whatever the bounds of the other side are, an
\* unbounded max_occurs included.
C1_NestWithZeroIsZero ==
    \A i \in 1..Len(fold) :
        (fold[i].op = "mul" /\ (fold[i].self = Zero \/ fold[i].other = Zero))
            => ResultOf(i) = Zero

\* an unbounded accumulator was nested with (0,0), and a (0,0) accumulator
\* with an unbounded operand
C1_Witness ==
    /\ \E i \in 1..Len(fold) :
          /\ fold[i].op = "mul" /\ fold[i].other = Zero
          /\ fold[i].self.max_occurs = None /\ fold[i].self.min_occurs > 0
          /\ ResultOf(i) = Zero
    /\ \E j \in 1..Len(fold) :
          /\ fold[j].op = "mul" /\ fold[j].self = Zero
          /\ fold[j].other.max_occurs = None /\ fold[j].other.min_occurs > 0
          /\ ResultOf(j) = Zero

Perms(n) == {f \in [1..n -> 1..n] : \A i, j \in 1..n : f[i] = f[j] => i = j}

RECURSIVE FoldAdd(_, _)
\* c + ops[1] + ... + ops[Len(ops)], folded left to right
FoldAdd(c, ops) ==
    IF ops = <<>> THEN c ELSE FoldAdd(__add__(c, Head(ops)), Tail(ops))

FoldOperands == [i \in 1..Len(fold) |-> fold[i].other]
OnlyAdds == \A i \in 1..Len(fold) : fold[i].op = "add"

\* C2: each sequence_combine sets min_occurs to a.min + b.min and max_occurs
\* to unbounded if a.max or b.max is unbounded, else to a.max + b.max; the
\* min_occurs of a fold of sequence_combine calls is the same for every order
\* and every grouping of the operands; and once an operand with unbounded max
\* has been combined, max_occurs stays unbounded under further
\* sequence_combine calls.
C2_SequenceCombine ==
    /\ \A i \in 1..Len(fold) :
          fold[i].op = "add" =>
            /\ ResultOf(i).min_occurs
                  = fold[i].self.min_occurs + fold[i].other.min_occurs
            /\ ResultOf(i).max_occurs
                  = IF fold[i].self.max_occurs = None
                       \/ fold[i].other.max_occurs = None
                    THEN None
                    ELSE fold[i].self.max_occurs + fold[i].other.max_occurs
    /\ OnlyAdds =>
          /\ \A p \in Perms(Len(fold)) :
                FoldAdd(ParticleCounter,
                        [i \in 1..Len(fold) |-> FoldOperands[p[i]]]).min_occurs
                    = counter.min_occurs
          /\ \A k \in 0..Len(fold) :
                __add__(FoldAdd(ParticleCounter, SubSeq(FoldOperands, 1, k)),
                        FoldAdd(ParticleCounter,
                                SubSeq(FoldOperands, k + 1, Len(fold)))).min_occurs
                    = counter.min_occurs
    /\ \A i \in 1..Len(fold) :
          (/\ fold[i].op = "add"
           /\ fold[i].other.max_occurs = None
           /\ \A j \in i..Len(fold) : fold[j].op = "add")
            => counter.max_occurs = None

\* three operands with different min_occurs were folded with
\* sequence_combine, the first of them unbounded
C2_Witness ==
    /\ Len(fold) = 3 /\ OnlyAdds
    /\ fold[1].other.max_occurs = None
    /\ fold[1].other.min_occurs = 1
    /\ fold[2].other = [min_occurs |-> 2, max_occurs |-> 2]
    /\ fold[3].other.min_occurs = 0
    /\ counter = [min_occurs |-> 3, max_occurs |-> None]

\* C3: each nest_combine sets min_occurs to a.min * b.min; max_occurs stays
\* unbounded when a.max is unbounded unless b.max is 0 (then it becomes 0),
\* becomes unbounded when only b.max is unbounded unless a.max is 0 (then it
\* stays 0), and is a.max * b.max when both are finite.
C3_NestCombine ==
    \A i \in 1..Len(fold) :
        fold[i].op = "mul" =>
            LET a == fold[i].self
                b == fold[i].other
                r == ResultOf(i)
            IN  /\ r.min_occurs = a.min_occurs * b.min_occurs
                /\ a.max_occurs = None =>
                      r.max_occurs = IF b.max_occurs = 0 THEN 0 ELSE None
                /\ (a.max_occurs # None /\ b.max_occurs = None) =>
                      r.max_occurs = IF a.max_occurs = 0 THEN 0 ELSE None
                /\ (a.max_occurs # None /\ b.max_occurs # None) =>
                      r.max_occurs = a.max_occurs * b.max_occurs

\* a finite non-zero accumulator became unbounded, an accumulator with max 0
\* stayed at 0 against an unbounded operand, and two finite bounds multiplied
C3_Witness ==
    /\ Len(fold) = 3
    /\ fold[1].op = "add" /\ fold[1].other = [min_occurs |-> 1, max_occurs |-> 2]
    /\ fold[2].op = "mul" /\ fold[2].other = [min_occurs |-> 2, max_occurs |-> 2]
    /\ fold[3].op = "mul" /\ fold[3].other = [min_occurs |-> 1, max_occurs |-> None]
    /\ fold[3].self = [min_occurs |-> 2, max_occurs |-> 4]
    /\ counter = [min_occurs |-> 2, max_occurs |-> None]

(***************************************************************************)
(* Properties of the name helpers                                          *)
(***************************************************************************)
\* the argument and the outcome of the i-th call
ArgOf(i) == IF i = 1 THEN qname ELSE results[i - 1]
Last == Len(calls)

Letters == {"a", "b"}
IsNCName(s) == s # <<>> /\ \A i \in 1..Len(s) : s[i] \in Letters

\* q is a local name, or a prefixed name prefix:local
IsLocal(q) == IsStr(q) /\ IsNCName(q.s)
IsPrefixed(q) ==
    /\ IsStr(q)
    /\ Len(split(q.s, ":")) = 2
    /\ IsNCName(split(q.s, ":")[1]) /\ IsNCName(split(q.s, ":")[2])

\* a prefixed name is resolvable when the map binds its prefix, a local name
\* always is
Resolvable(q, m) ==
    \/ IsLocal(q)
    \/ IsPrefixed(q) /\ HasKey(m, split(q.s, ":")[1])

\* no two prefixes of the map share a URI
Injective(m) ==
    /\ m.tag = "dict"
    /\ \A i, j \in 1..Len(m.items) : m.items[i][2] = m.items[j][2] => i = j

RoundTrip == calls = <<"qname_to_extended", "qname_to_prefixed">>

LocalComesBack(m) ==
    \/ HasKey(m, <<>>) /\ Get(m, <<>>) # <<>>
    \/ \A i \in 1..Len(m.items) : m.items[i][2] = <<>> => m.items[i][1] = <<>>

QnameThenLocal == calls = <<"get_qname", "local_name">>

NonEmptyStr(v) == IsStr(v) /\ v.s # <<>>

\* C5 as stated: for non-empty U and non-empty L not starting with '{', '.',
\* '/' or '[', get_qname(U, L) is '{U}L' and local_name of it is L.
C5_QnameLocalRoundTrip ==
    (/\ Len(calls) >= 1 /\ calls[1] = "get_qname"
     /\ NonEmptyStr(uri) /\ NonEmptyStr(qname)
     /\ qname.s[1] \notin {"{", ".", "/", "["})
        => /\ results[1] = Str(<<"{">> \o uri.s \o <<"}">> \o qname.s)
           /\ QnameThenLocal => results[2] = qname

\* C5 amended: for non-empty U and non-empty L not starting with '{', '.',
\* '/' or '[', get_qname(U, L) is '{U}L'; when neither U nor L contains '}',
\* local_name of it is L.
C5_QnameLocalRoundTripAmended ==
    (/\ Len(calls) >= 1 /\ calls[1] = "get_qname"
     /\ NonEmptyStr(uri) /\ NonEmptyStr(qname)
     /\ qname.s[1] \notin {"{", ".", "/", "["})
        => /\ results[1] = Str(<<"{">> \o uri.s \o <<"}">> \o qname.s)
           /\ (/\ QnameThenLocal
               /\ ~Contains(uri.s, "}") /\ ~Contains(qname.s, "}"))
                 => results[2] = qname

\* the prefixed name 'b:a' was qualified with 'a' and its local part taken
C5_Witness ==
    /\ QnameThenLocal
    /\ uri = Str(<<"a">>)
    /\ qname = Str(<<"b", ":", "a">>)
    /\ results = <<Str(<<"{", "a", "}", "b", ":", "a">>), qname>>

\* C6: get_namespace, get_qname, qname_to_prefixed and qname_to_extended
\* return a value, and never raise, for a name that is a non-empty string,
\* the empty string or None, with any namespace map (for qname_to_extended
\* also an empty map or None in its place).
C6_ResolversTotal ==
    (/\ Len(calls) = 1
     /\ calls[1] \in {"get_namespace", "get_qname", "qname_to_prefixed",
                      "qname_to_extended"}
     /\ qname.tag \in {"str", "None"}
     /\ calls[1] = "qname_to_prefixed" => namespaces.tag = "dict")
        => IsValue(results[1])

\* the local part of a string that is not malformed
Stripped(s) ==
    IF s[1] = "{" THEN SubSeq(s, IndexOf(s, "}") + 1, Len(s))
    ELSE IF Contains(s, ":") THEN SubSeq(s, IndexOf(s, ":") + 1, Len(s))
    ELSE s

\* C7 as stated: local_name returns '' for '', None for None, fails with
\* XMLSchemaValueError for an input that contains '{' and does not split on
\* '}' into exactly two parts, fails with a type error for an input that is
\* not a string, and otherwise returns the name without its leading
\* '{namespace}' or 'prefix:' segment.
C7_LocalNameOutcomes ==
    \A i \in 1..Len(calls) :
        calls[i] = "local_name" =>
            LET x == ArgOf(i)
                r == results[i]
            IN  CASE x.tag = "None" -> r = x
                  [] x.tag = "int" -> r = Raise("XMLSchemaTypeError")
                  [] x.tag = "str" /\ x.s = <<>> -> r = Str(<<>>)
                  [] x.tag = "str" /\ x.s # <<>> ->
                        IF Contains(x.s, "{") /\ Len(split(x.s, "}")) # 2
                        THEN r = Raise("XMLSchemaValueError")
                        ELSE r = Str(Stripped(x.s))

\* a string is malformed when it starts with '{' and does not split on '}'
\* into two parts, or does not start with '{', contains ':' and does not
\* split on ':' into two parts
Malformed(s) ==
    \/ s[1] = "{" /\ Len(split(s, "}")) # 2
    \/ s[1] # "{" /\ Contains(s, ":") /\ Len(split(s, ":")) # 2

\* C7 amended: local_name returns '' for '', None for None, fails with
\* XMLSchemaValueError for an input that starts with '{' and does not split
\* on '}' into exactly two parts or that does not start with '{', contains
\* ':' and does not split on ':' into exactly two parts, fails with
\* XMLSchemaTypeError for an integer, and otherwise returns the name without
\* its leading '{namespace}' or 'prefix:' segment.
C7_LocalNameOutcomesAmended ==
    \A i \in 1..Len(calls) :
        calls[i] = "local_name" =>
            LET x == ArgOf(i)
                r == results[i]
            IN  CASE x.tag = "None" -> r = x
                  [] x.tag = "int" -> r = Raise("XMLSchemaTypeError")
                  [] x.tag = "str" /\ x.s = <<>> -> r = Str(<<>>)
                  [] x.tag = "str" /\ x.s # <<>> ->
                        IF Malformed(x.s)
                        THEN r = Raise("XMLSchemaValueError")
                        ELSE r = Str(Stripped(x.s))

\* local_name failed on a name with two ':' separators
C7_Witness ==
    /\ calls = <<"local_name">>
    /\ qname = Str(<<"a", ":", ":">>)
    /\ results = <<Raise("XMLSchemaValueError")>>

\* the items of m whose URI is the namespace of the string x
Bound(x, m) == {i \in 1..Len(m.items) : m.items[i][2] = get_namespace(x).s}

\* the greatest prefix among them
GreatestPrefix(x, m) ==
    m.items[CHOOSE i \in Bound(x, m) :
                \A j \in Bound(x, m) : ~StrLess(m.items[i][1], m.items[j][1])][1]

TokenSet(s) ==
    {SubSeq(s, i, j) : i \in 1..Len(s), j \in 1..Len(s)} \cap
    {t \in UNION {[1..k -> AttrChars \ {" "}] : k \in 1..Len(s)} :
        \E i \in 1..Len(s) :
            /\ i + Len(t) - 1 <= Len(s)
            /\ SubSeq(s, i, i + Len(t) - 1) = t
            /\ (i = 1 \/ s[i - 1] = " ")
            /\ (i + Len(t) - 1 = Len(s) \/ s[i + Len(t)] = " ")}

AllowedSet ==
    IF values.tag = "None" THEN XSD_FINAL_ATTRIBUTE_VALUES
    ELSE Range(values.items)

\* the tokens of a result, which may hold characters of any allowed token
ResultTokens(s) == Range(split_whitespace(s))

\* C9: get_xsd_derivation_attribute returns '' for an absent value; for a
\* value whose only token is '#all' a string whose token set is the allowed
\* set; fails with XMLSchemaValueError for a value with a token outside the
\* allowed set; returns any other value unchanged; so every returned string
\* has all its tokens in the allowed set.
C9_DerivationOutcomes ==
    derivation # NotCalled =>
        /\ CASE value.tag = "None" -> derivation = Str(<<>>)
             [] value.tag = "str" /\ TokenSet(value.s) = {HashAll}
                  /\ Len(split_whitespace(value.s)) = 1 ->
                    IsStr(derivation) /\ ResultTokens(derivation.s) = AllowedSet
             [] OTHER ->
                    IF TokenSet(value.s) \subseteq AllowedSet
                    THEN derivation = value
                    ELSE derivation = Raise("XMLSchemaValueError")
        /\ IsStr(derivation) => ResultTokens(derivation.s) \subseteq AllowedSet

\* ' #all' was expanded to the two admitted values, in the order given
C9_Witness ==
    /\ value = Str(<<" ", "#", "a", "l", "l">>)
    /\ values = List(<< <<"l">>, <<"a">> >>)
    /\ derivation = Str(<<"l", " ", "a">>)

(***************************************************************************)
(* Properties of count_digits                                              *)
(***************************************************************************)
\* C10: count_digits returns (2, 2) for '0012.3400', (4, 0) for '1.5E3',
\* (0, 4) for '1.5E-3' and (3, 0) for '100'.
C10_DocumentedExamples ==
    digits # NotCalled =>
        /\ number = Str(<<"0", "0", "1", "2", ".", "3", "4", "0", "0">>)
              => digits = Couple(2, 2)
        /\ number = Str(<<"1", ".", "5", "E", "3">>) => digits = Couple(4, 0)
        /\ number = Str(<<"1", ".", "5", "E", "-", "3">>) => digits = Couple(0, 4)
        /\ number = Str(<<"1", "0", "0">>) => digits = Couple(3, 0)

\* the digits of the plain decimal expansion of the number written by the
\* numeral s, without sign and without non-significant zeros: the count of
\* those before the decimal point and of those after it
ExpansionDigits(s) ==
    LET d == Decimal(s)
        significant == rstrip(d.int, {"0"})
        exponent == d.exp + (Len(d.int) - Len(significant))
    IN  IF significant = <<>> THEN Couple(0, 0)
        ELSE IF exponent >= 0 THEN Couple(Len(significant) + exponent, 0)
        ELSE Couple(IF Len(significant) + exponent > 0
                    THEN Len(significant) + exponent ELSE 0,
                    0 - exponent)

\* C11: for every numeral (optional sign, digits with an optional decimal
\* point, optional exponent E or e with a signed integer) count_digits
\* returns the numbers of integer and of fraction digits of the plain decimal
\* expansion of its value, both non-negative.
C11_DigitsOfExpansion ==
    (digits # NotCalled /\ number.tag = "str") =>
        /\ digits = ExpansionDigits(number.s)
        /\ digits.s[1] >= 0 /\ digits.s[2] >= 0

(***************************************************************************)
(* The bounds of the accumulator                                           *)
(***************************************************************************)
\* the bounds c are those of a particle: min_occurs is a natural number and
\* max_occurs is unbounded or a natural number not less than min_occurs
ValidBounds(c) ==
    /\ c.min_occurs \in Nat
    /\ \/ c.max_occurs = None
       \/ c.max_occurs \in Nat /\ c.max_occurs >= c.min_occurs

\* C14: from a fresh counter (0, 0), after any sequence of sequence_combine,
\* nest_combine and reset calls whose operands have a non-negative min_occurs
\* and a max_occurs that is unbounded or not less than it, min_occurs of the
\* accumulator is a non-negative integer and max_occurs is unbounded or an
\* integer not less than min_occurs.
C14_AccumulatorBounds ==
    (\A i \in 1..Len(fold) : ValidBounds(fold[i].other))
        => /\ ValidBounds(counter)
           /\ \A i \in 1..Len(fold) : ValidBounds(fold[i].self)

\* a counter that had reached (2, 2) was nested with (0, 0) and then with an
\* unbounded particle, and stayed at (0, 0)
C14_Witness ==
    /\ Len(fold) = 3
    /\ fold[1].op = "add" /\ fold[1].other = [min_occurs |-> 2, max_occurs |-> 2]
    /\ fold[2].op = "mul" /\ fold[2].other = [min_occurs |-> 0, max_occurs |-> 0]
    /\ fold[3].op = "mul" /\ fold[3].other = [min_occurs |-> 2, max_occurs |-> None]
    /\ counter = [min_occurs |-> 0, max_occurs |-> 0]

(***************************************************************************)
(* Frame of the calls on counter objects                                   *)
(***************************************************************************)
\* the heap as the i-th call of log left it
HeapAfter(i) == IF i = Len(log) THEN heap ELSE log[i + 1].before

\* C13: a combine a + b or a * b with b another object than a assigns only
\* the attributes of a, returns a itself and leaves b as it was; a.reset()
\* sets a to (0, 0) from any state, an unbounded max_occurs included, and
\* changes no other object.
C13_CombineFrame ==
    \A i \in 1..Len(log) :
        LET c == log[i]
        IN  /\ (c.op \in {"add", "mul"} /\ c.self # c.other) =>
                  /\ c.ret = c.self
                  /\ HeapAfter(i)[c.other] = c.before[c.other]
                  /\ \A o \in Objects \ {c.self} : HeapAfter(i)[o] = c.before[o]
                  /\ HeapAfter(i)[c.self] =
                        IF c.op = "add"
                        THEN __add__(c.before[c.self], c.before[c.other])
                        ELSE __mul__(c.before[c.self], c.before[c.other])
            /\ c.op = "reset" =>
                  /\ HeapAfter(i)[c.self] = [min_occurs |-> 0, max_occurs |-> 0]
                  /\ \A o \in Objects \ {c.self} : HeapAfter(i)[o] = c.before[o]

\* c2 took the bounds of the unbounded particle, c1 took those of c2 and was
\* reset: c2 and the particle kept theirs
C13_Witness ==
    /\ Len(log) = 3
    /\ heap["p"] = [min_occurs |-> 1, max_occurs |-> None]
    /\ log[1].op = "add" /\ log[1].self = "c2" /\ log[1].other = "p"
    /\ log[2].op = "add" /\ log[2].self = "c1" /\ log[2].other = "c2"
    /\ log[3].op = "reset" /\ log[3].self = "c1"
    /\ log[3].before["c1"] = [min_occurs |-> 1, max_occurs |-> None]
    /\ heap["c1"] = [min_occurs |-> 0, max_occurs |-> 0]
    /\ heap["c2"] = [min_occurs |-> 1, max_occurs |-> None]

(***************************************************************************)
(* Threads with a counter instance each                                    *)
(***************************************************************************)
OwnInstances == \A t, u \in Threads : t # u => target[t] # target[u]

\* C12: when each thread combines into its own ParticleCounter instance,
\* with the attribute reads and writes of the threads interleaved in any
\* order, a thread that has returned from its combines finds in its counter
\* the bounds the same combines give when run alone, and no combine raises;
\* so a different result needs two threads combining into one instance.
C12_OwnInstanceIsolation ==
    OwnInstances =>
        \A t \in Threads :
            /\ thread[t].pc # "raised"
            /\ thread[t].pc = "idle" => heap[target[t]] = intended[t]

\* both threads have returned from a combine whose steps were taken while
\* the other thread was inside its own
C12_Witness ==
    /\ OwnInstances
    /\ begun = 2
    /\ \A t \in Threads : thread[t].pc = "idle" /\ thread[t].mixed
    /\ heap["c1"] = [min_occurs |-> 3, max_occurs |-> None]
    /\ heap["c2"] = [min_occurs |-> 0, max_occurs |-> 0]
    /\ intended = <<heap["c1"], heap["c2"]>>

====
